---------------------------- MODULE Spec2Model ----------------------------
(***************************************************************************)
(* Model of the bus fleet backend (proyecto-buses).                        *)
(*                                                                         *)
(* The state is the PostgreSQL table `buses` (one row per bus), the        *)
(* database clock and the requests in flight.  A handler keeps no state    *)
(* of its own: it is an operator from the table, the clock and the request *)
(* to the table it leaves and the response it gives.  The                  *)
(* operations are the handlers of the router api/v1/endpoints/buses.py     *)
(* (raw SQL through psycopg2), of main.py, and the methods of              *)
(* crud/buses.py BusRepository (SQLAlchemy session).  They all work on     *)
(* the same table.                                                         *)
(*                                                                         *)
(* Strings are sequences of one-character strings, so that upper(),        *)
(* replace() and ILIKE are computed and not assumed.  A nullable column    *)
(* holds <<>> for NULL and <<v>> for the value v.                          *)
(*                                                                         *)
(* Columns of `buses` that no modelled operation reads back                *)
(* (numero_chasis, numero_motor, fecha_compra, precio_compra,              *)
(* observaciones, fecha_creacion) are left out of the row.                 *)
(***************************************************************************)
EXTENDS Integers, Sequences, FiniteSets, TLC

VARIABLES
    buses,   \* the table: id -> row
    now,     \* the database clock, NOW()
    req,     \* client -> the request it has in flight and, once done, its response
    llamada  \* the call of a function of the code that touches no table: its
             \* arguments and what it returned

vars == <<buses, now, req, llamada>>

---------------------------------------------------------------------------
(* Bounds of the model *)

\* rows the table may hold
MaxBuses == 2
\* the last tick of the clock
MaxClock == 1

---------------------------------------------------------------------------
(* Strings *)

\* str.upper() on one character
UpperChar(c) ==
    CASE c = "a" -> "A" [] c = "b" -> "B" [] c = "c" -> "C" [] c = "d" -> "D"
      [] c = "e" -> "E" [] c = "f" -> "F" [] c = "g" -> "G" [] c = "h" -> "H"
      [] c = "i" -> "I" [] c = "j" -> "J" [] c = "k" -> "K" [] c = "l" -> "L"
      [] c = "m" -> "M" [] c = "n" -> "N" [] c = "o" -> "O" [] c = "p" -> "P"
      [] c = "q" -> "Q" [] c = "r" -> "R" [] c = "s" -> "S" [] c = "t" -> "T"
      [] c = "u" -> "U" [] c = "v" -> "V" [] c = "w" -> "W" [] c = "x" -> "X"
      [] c = "y" -> "Y" [] c = "z" -> "Z" [] OTHER -> c

\* lower-casing of one character (ILIKE compares without case)
LowerChar(c) ==
    CASE c = "A" -> "a" [] c = "B" -> "b" [] c = "C" -> "c" [] c = "D" -> "d"
      [] c = "E" -> "e" [] c = "F" -> "f" [] c = "G" -> "g" [] c = "H" -> "h"
      [] c = "I" -> "i" [] c = "J" -> "j" [] c = "K" -> "k" [] c = "L" -> "l"
      [] c = "M" -> "m" [] c = "N" -> "n" [] c = "O" -> "o" [] c = "P" -> "p"
      [] c = "Q" -> "q" [] c = "R" -> "r" [] c = "S" -> "s" [] c = "T" -> "t"
      [] c = "U" -> "u" [] c = "V" -> "v" [] c = "W" -> "w" [] c = "X" -> "x"
      [] c = "Y" -> "y" [] c = "Z" -> "z" [] OTHER -> c

Upper(s) == [i \in 1..Len(s) |-> UpperChar(s[i])]
Lower(s) == [i \in 1..Len(s) |-> LowerChar(s[i])]

\* s.replace(c, '', 1), which takes out the first c only: what C18 rules out
Remove_primero(s, c) ==
    IF \E i \in 1..Len(s) : s[i] = c
    THEN LET k == CHOOSE i \in 1..Len(s) :
                      s[i] = c /\ \A j \in 1..(i - 1) : s[j] # c
         IN  SubSeq(s, 1, k - 1) \o SubSeq(s, k + 1, Len(s))
    ELSE s

\* s.replace(c, '')
Remove(s, c) == SelectSeq(s, LAMBDA x : x # c)

\* s contains t as a substring
Contains(s, t) ==
    \E i \in 1..(Len(s) - Len(t) + 1) : SubSeq(s, i, i + Len(t) - 1) = t

\* column ILIKE '%termino%'; a NULL column matches nothing
ILike(col, termino) == Contains(Lower(col), Lower(termino))

ILikeNullable(col, termino) == col # <<>> /\ ILike(col[1], termino)

---------------------------------------------------------------------------
(* Plates *)

MinPatente == 6
MaxPatente == 8

\* a cleaning that keeps the case of the letters: what C17 rules out
LimpiarPatente_sin_mayusculas(patente) == Remove(Remove(patente, "-"), " ")

\* patente.upper().replace('-', '').replace(' ', '')
LimpiarPatente(patente) == Remove(Remove(Upper(patente), "-"), " ")

\* len(patente) < 6 or len(patente) > 8
PatenteLargoInvalido(patente) ==
    Len(patente) < MinPatente \/ Len(patente) > MaxPatente

---------------------------------------------------------------------------
(* Reference tables estados_buses and tipos_combustible.  The rows are the *)
(* seed rows; a row's id is its position (serial primary key).             *)

EstadosBuses ==
    << [codigo |-> <<"A","C","T">>, nombre |-> "Activo"],
       [codigo |-> <<"M","A","N">>, nombre |-> "Mantenimiento"],
       [codigo |-> <<"F","S">>,     nombre |-> "Fuera de Servicio"],
       [codigo |-> <<"R","E","T">>, nombre |-> "Retirado"] >>

TiposCombustible ==
    << [codigo |-> <<"D","S","L">>, nombre |-> "Diesel"],
       [codigo |-> <<"G","A","S">>, nombre |-> "Gasolina"],
       [codigo |-> <<"E","L","E">>, nombre |-> "Electrico"],
       [codigo |-> <<"H","I","B">>, nombre |-> "Hibrido"],
       [codigo |-> <<"G","N","V">>, nombre |-> "Gas Natural"] >>

\* SELECT id FROM estados_buses WHERE id = %s
ExisteEstado(estado_id) == estado_id \in 1..Len(EstadosBuses)

\* SELECT id FROM tipos_combustible WHERE id = %s
ExisteTipoCombustible(tipo_id) == tipo_id \in 1..Len(TiposCombustible)

---------------------------------------------------------------------------
(* The table `buses` and its constraints *)

Columnas ==
    {"patente", "codigo_interno", "marca", "modelo", "anio",
     "capacidad_sentados", "estado_id", "tipo_combustible_id",
     "kilometraje_actual", "esta_activo", "fecha_actualizacion"}

\* the columns that may hold NULL
ColumnasNulas == {"codigo_interno", "kilometraje_actual"}

\* the value v as stored in column f
Celda(f, v) == IF f \in ColumnasNulas THEN <<v>> ELSE v

\* a table with no constraint on patente: what C3 rules out
UniquePatente_sin_restriccion(t) == TRUE

\* patente: unique=True, over every row of the table, active or not
UniquePatente(t) ==
    \A i, j \in DOMAIN t : i # j => t[i].patente # t[j].patente

\* codigo_interno: unique=True; NULLs do not collide
UniqueCodigoInterno(t) ==
    \A i, j \in DOMAIN t :
        (i # j /\ t[i].codigo_interno # <<>>)
            => t[i].codigo_interno # t[j].codigo_interno

\* a table with no foreign key: what C15 rules out
ForeignKeysOk_sin_restriccion(t) == TRUE

\* the foreign keys from buses to estados_buses and tipos_combustible: the
\* table is created outside these sources, which join on the two columns and
\* call them foreign keys; the constraints are those the specification of
\* the persisted layout gives
ForeignKeysOk(t) ==
    \A i \in DOMAIN t :
        ExisteEstado(t[i].estado_id) /\ ExisteTipoCombustible(t[i].tipo_combustible_id)

\* what the database checks when a statement writes the table
Integridad(t) == UniquePatente(t) /\ UniqueCodigoInterno(t) /\ ForeignKeysOk(t)

\* the id the sequence gives the next row
NuevoId(t) == Cardinality(DOMAIN t) + 1

\* INSERT INTO buses (...) VALUES (...) RETURNING id, then commit.
\* esta_activo and fecha_actualizacion take their column defaults.
\* ok = FALSE is psycopg2.IntegrityError / sqlalchemy IntegrityError.
InsertBus(t, ts, v) ==
    LET id  == NuevoId(t)
        row == [patente             |-> v.patente,
                codigo_interno      |-> v.codigo_interno,
                marca               |-> v.marca,
                modelo              |-> v.modelo,
                anio                |-> v.anio,
                capacidad_sentados  |-> v.capacidad_sentados,
                estado_id           |-> v.estado_id,
                tipo_combustible_id |-> v.tipo_combustible_id,
                kilometraje_actual  |-> v.kilometraje_actual,
                esta_activo         |-> TRUE,
                fecha_actualizacion |-> ts]
        t2  == [i \in DOMAIN t \cup {id} |-> IF i = id THEN row ELSE t[i]]
    IN  IF Integridad(t2)
        THEN [ok |-> TRUE,  tabla |-> t2, id |-> id]
        ELSE [ok |-> FALSE, tabla |-> t,  id |-> 0]

\* a SET list that also writes the default capacity where the request names
\* none: what C8 rules out
SetCampos_con_defecto(row, sets) ==
    [f \in DOMAIN row |->
        IF f \in DOMAIN sets THEN sets[f]
        ELSE IF f = "capacidad_sentados" THEN 45 ELSE row[f]]

\* the row after "SET campo = valor, ..." for the columns of sets
SetCampos(row, sets) ==
    [f \in DOMAIN row |-> IF f \in DOMAIN sets THEN sets[f] ELSE row[f]]

\* UPDATE buses SET <sets>, fecha_actualizacion = NOW() WHERE id = %s, then
\* commit.  The WHERE clause names the id alone.
UpdateBus(t, ts, id, sets) ==
    LET row == [SetCampos(t[id], sets) EXCEPT !.fecha_actualizacion = ts]
        t2  == [t EXCEPT ![id] = row]
    IN  IF id \notin DOMAIN t THEN [ok |-> TRUE, tabla |-> t]
        ELSE IF Integridad(t2) THEN [ok |-> TRUE, tabla |-> t2]
        ELSE [ok |-> FALSE, tabla |-> t]

---------------------------------------------------------------------------
(* Responses *)

Resp(status, error) == [status |-> status, error |-> error]

Ok(r) == r.error = "none"

---------------------------------------------------------------------------
(* api/v1/endpoints/buses.py: the router's handlers.  Each handler is an   *)
(* operator from the table (and the clock) to the table it leaves and the  *)
(* response it gives.  "error" names the failure the detail message tells. *)

\* datetime.now().year
AnioActual == 2026
AnioMinimo == 1980
CapacidadMinima == 1
CapacidadMaxima == 45

\* BusCrear: the optional fields a request leaves out take their defaults
BusCrear(raw) ==
    [f \in DOMAIN raw \cup {"codigo_interno", "kilometraje_actual"} |->
        IF f \in DOMAIN raw THEN raw[f]
        ELSE IF f = "kilometraje_actual" THEN <<0>> ELSE <<>>]

\* the checks of the fields with the capacity looked at first: what C26
\* rules out
crear_bus_validar_capacidad_primero(d) ==
    IF d.capacidad_sentados < CapacidadMinima
            \/ d.capacidad_sentados > CapacidadMaxima
        THEN Resp(400, "InvalidCapacity")
    ELSE IF PatenteLargoInvalido(LimpiarPatente(d.patente))
        THEN Resp(400, "InvalidPlateFormat")
    ELSE IF d.anio < AnioMinimo \/ d.anio > AnioActual + 1
        THEN Resp(400, "InvalidYear")
    ELSE Resp(201, "none")

\* crear_bus, "Validaciones de entrada": the first check that fails
crear_bus_validar(d) ==
    IF PatenteLargoInvalido(LimpiarPatente(d.patente))
        THEN Resp(400, "InvalidPlateFormat")
    ELSE IF d.anio < AnioMinimo \/ d.anio > AnioActual + 1
        THEN Resp(400, "InvalidYear")
    ELSE IF d.capacidad_sentados < CapacidadMinima
            \/ d.capacidad_sentados > CapacidadMaxima
        THEN Resp(400, "InvalidCapacity")
    ELSE Resp(201, "none")

\* the SELECT of the plate with "AND esta_activo = true": what C27 rules out
ExistePatente_solo_activos(t, patente) ==
    \E i \in DOMAIN t : t[i].patente = patente /\ t[i].esta_activo

\* SELECT id FROM buses WHERE patente = %s
ExistePatente(t, patente) == \E i \in DOMAIN t : t[i].patente = patente

\* crear_bus, "Verificar patente unica" and "Verificar foreign keys"
crear_bus_consultar(t, d) ==
    IF ExistePatente(t, LimpiarPatente(d.patente))
        THEN Resp(400, "DuplicatePlate")
    ELSE IF ~ExisteEstado(d.estado_id)
        THEN Resp(400, "UnknownState")
    ELSE IF ~ExisteTipoCombustible(d.tipo_combustible_id)
        THEN Resp(400, "UnknownFuelType")
    ELSE Resp(201, "none")

\* crear_bus, "Insertar bus": an error of the INSERT is caught by
\* "except Exception" and answered 500
crear_bus_insertar(t, ts, d) ==
    LET ins == InsertBus(t, ts, [d EXCEPT !.patente = LimpiarPatente(d.patente)])
    IN  IF ins.ok
        THEN [tabla |-> ins.tabla, id |-> ins.id, resp |-> Resp(201, "none")]
        ELSE [tabla |-> t, id |-> 0, resp |-> Resp(500, "InternalError")]

\* a crear_bus that runs its INSERT before its checks: what C14 rules out
crear_bus_run_inserta_primero(t, ts, raw) ==
    LET d   == BusCrear(raw)
        v   == crear_bus_validar(d)
        c   == crear_bus_consultar(t, d)
        ins == crear_bus_insertar(t, ts, d)
    IN  IF ~Ok(v) THEN [tabla |-> ins.tabla, id |-> 0, resp |-> v]
        ELSE IF ~Ok(c) THEN [tabla |-> ins.tabla, id |-> 0, resp |-> c]
        ELSE ins

\* crear_bus, the whole handler
crear_bus_run(t, ts, raw) ==
    LET d == BusCrear(raw)
        v == crear_bus_validar(d)
        c == crear_bus_consultar(t, d)
    IN  IF ~Ok(v) THEN [tabla |-> t, id |-> 0, resp |-> v]
        ELSE IF ~Ok(c) THEN [tabla |-> t, id |-> 0, resp |-> c]
        ELSE crear_bus_insertar(t, ts, d)

\* the SELECT without "AND esta_activo = true": what C10 rules out
ExisteActivo_sin_filtro(t, id) == id \in DOMAIN t

\* SELECT id FROM buses WHERE id = %s AND esta_activo = true
ExisteActivo(t, id) == id \in DOMAIN t /\ t[id].esta_activo

\* SELECT id FROM buses WHERE patente = %s AND id != %s
PatenteEnUso(t, patente, id) ==
    \E i \in DOMAIN t : i # id /\ t[i].patente = patente

\* actualizar_bus, the patente block: the failure it answers, if any
actualizar_bus_patente(t, id, d) ==
    IF "patente" \notin DOMAIN d THEN Resp(200, "none")
    ELSE IF PatenteLargoInvalido(LimpiarPatente(d.patente))
        THEN Resp(400, "InvalidPlateFormat")
    ELSE IF PatenteEnUso(t, LimpiarPatente(d.patente), id)
        THEN Resp(400, "DuplicatePlate")
    ELSE Resp(200, "none")

\* actualizar_bus, campos_actualizar / valores: the SET list of the UPDATE.
\* No field but patente is checked before it is written.
actualizar_bus_campos(d) ==
    [f \in DOMAIN d |->
        IF f = "patente" THEN LimpiarPatente(d.patente) ELSE Celda(f, d[f])]

\* actualizar_bus, "Ejecutar actualizacion"
actualizar_bus_ejecutar(t, ts, id, d) ==
    LET upd == UpdateBus(t, ts, id, actualizar_bus_campos(d))
    IN  IF DOMAIN d = {} THEN [tabla |-> t, resp |-> Resp(400, "NoFields")]
        ELSE IF upd.ok THEN [tabla |-> upd.tabla, resp |-> Resp(200, "none")]
        ELSE [tabla |-> t, resp |-> Resp(500, "InternalError")]

\* actualizar_bus, the whole handler
actualizar_bus_run(t, ts, id, d) ==
    LET p == actualizar_bus_patente(t, id, d)
    IN  IF ~ExisteActivo(t, id) THEN [tabla |-> t, resp |-> Resp(404, "NotFound")]
        ELSE IF ~Ok(p) THEN [tabla |-> t, resp |-> p]
        ELSE actualizar_bus_ejecutar(t, ts, id, d)

\* an UPDATE that sets fecha_actualizacion and leaves esta_activo as it was:
\* what C2 rules out
SetActivo_solo_fecha(t, ts, id, activo) ==
    IF id \in DOMAIN t
    THEN [t EXCEPT ![id] = [@ EXCEPT !.fecha_actualizacion = ts]]
    ELSE t

\* UPDATE buses SET esta_activo = <activo>, fecha_actualizacion = NOW()
\* WHERE id = %s
SetActivo(t, ts, id, activo) ==
    IF id \in DOMAIN t
    THEN [t EXCEPT ![id] = [@ EXCEPT !.esta_activo = activo,
                                     !.fecha_actualizacion = ts]]
    ELSE t

\* an eliminar_bus that also moves the bus to the last state of
\* estados_buses: what C29 rules out
eliminar_bus_run_cambia_estado(t, ts, id) ==
    IF ~ExisteActivo(t, id) THEN [tabla |-> t, resp |-> Resp(404, "NotFound")]
    ELSE [tabla |-> [SetActivo(t, ts, id, FALSE) EXCEPT ![id].estado_id = 4],
          resp |-> Resp(200, "none")]

\* eliminar_bus, the whole handler
eliminar_bus_run(t, ts, id) ==
    IF ~ExisteActivo(t, id) THEN [tabla |-> t, resp |-> Resp(404, "NotFound")]
    ELSE [tabla |-> SetActivo(t, ts, id, FALSE), resp |-> Resp(200, "none")]

\* the SELECT without "AND b.esta_activo = false": what C13 rules out
ExisteInactivo_sin_filtro(t, id) == id \in DOMAIN t

\* SELECT ... FROM buses b WHERE b.id = %s AND b.esta_activo = false
ExisteInactivo(t, id) == id \in DOMAIN t /\ ~t[id].esta_activo

\* restaurar_bus, the whole handler
restaurar_bus_run(t, ts, id) ==
    IF ~ExisteInactivo(t, id) THEN [tabla |-> t, resp |-> Resp(404, "NotFound")]
    ELSE [tabla |-> SetActivo(t, ts, id, TRUE), resp |-> Resp(200, "none")]

\* the rows of "FROM buses b JOIN estados_buses e ... JOIN tipos_combustible t"
Joined(t) ==
    {i \in DOMAIN t : ExisteEstado(t[i].estado_id)
                      /\ ExisteTipoCombustible(t[i].tipo_combustible_id)}

\* obtener_bus: the row answered, or 404
obtener_bus(t, id) ==
    IF id \in Joined(t) /\ t[id].esta_activo
    THEN [resp |-> Resp(200, "none"), rows |-> {id}]
    ELSE [resp |-> Resp(404, "NotFound"), rows |-> {}]

\* listar_buses: the ids answered (WHERE b.esta_activo = true)
listar_buses(t) == {i \in Joined(t) : t[i].esta_activo}

\* listar_buses_eliminados: the ids answered (WHERE b.esta_activo = false)
listar_buses_eliminados(t) == {i \in DOMAIN t : ~t[i].esta_activo}

---------------------------------------------------------------------------
(* main.py: the handlers of the application module.  A handler returns the *)
(* pair (body, status); "status" is the second of the pair.                *)

\* main.py crear_bus, the INSERT and what follows it.  psycopg2.IntegrityError
\* is answered 400 "Error de integridad en base de datos".  After the commit
\* the handler reads bus_creado[14] of the eleven columns it selected: the
\* IndexError is caught by "except Exception" and answered 500, the row
\* staying in the table.
main_crear_bus_insertar(t, ts, d) ==
    LET ins == InsertBus(t, ts, [d EXCEPT !.patente = LimpiarPatente(d.patente)])
    IN  IF ins.ok
        THEN [tabla |-> ins.tabla, id |-> ins.id, resp |-> Resp(500, "InternalError")]
        ELSE [tabla |-> t, id |-> 0, resp |-> Resp(400, "IntegrityError")]

\* main.py crear_bus, the whole handler: the checks are those of the router,
\* in the same order
main_crear_bus_run(t, ts, raw) ==
    LET d == BusCrear(raw)
        v == crear_bus_validar(d)
        c == crear_bus_consultar(t, d)
    IN  IF ~Ok(v) THEN [tabla |-> t, id |-> 0, resp |-> v]
        ELSE IF ~Ok(c) THEN [tabla |-> t, id |-> 0, resp |-> c]
        ELSE main_crear_bus_insertar(t, ts, d)

\* main.py actualizar_bus: the checks of the fields, in the order of the code
main_actualizar_bus_validar(t, bus_id, d) ==
    IF "patente" \in DOMAIN d /\ PatenteLargoInvalido(LimpiarPatente(d.patente))
        THEN Resp(400, "InvalidPlateFormat")
    ELSE IF "patente" \in DOMAIN d /\ PatenteEnUso(t, LimpiarPatente(d.patente), bus_id)
        THEN Resp(400, "DuplicatePlate")
    ELSE IF "anio" \in DOMAIN d /\ (d.anio < AnioMinimo \/ d.anio > AnioActual + 1)
        THEN Resp(400, "InvalidYear")
    ELSE IF "capacidad_sentados" \in DOMAIN d
            /\ (d.capacidad_sentados < CapacidadMinima
                \/ d.capacidad_sentados > CapacidadMaxima)
        THEN Resp(400, "InvalidCapacity")
    ELSE IF "estado_id" \in DOMAIN d /\ ~ExisteEstado(d.estado_id)
        THEN Resp(400, "UnknownState")
    ELSE IF "tipo_combustible_id" \in DOMAIN d
            /\ ~ExisteTipoCombustible(d.tipo_combustible_id)
        THEN Resp(400, "UnknownFuelType")
    ELSE IF DOMAIN d = {} THEN Resp(400, "NoFields")
    ELSE Resp(200, "none")

\* main.py actualizar_bus, the whole handler; psycopg2.IntegrityError is
\* answered 400 "Error de integridad en base de datos"
main_actualizar_bus_run(t, ts, bus_id, d) ==
    LET v   == main_actualizar_bus_validar(t, bus_id, d)
        upd == UpdateBus(t, ts, bus_id, actualizar_bus_campos(d))
    IN  IF ~ExisteActivo(t, bus_id) THEN [tabla |-> t, resp |-> Resp(404, "NotFound")]
        ELSE IF ~Ok(v) THEN [tabla |-> t, resp |-> v]
        ELSE IF upd.ok THEN [tabla |-> upd.tabla, resp |-> Resp(200, "none")]
        ELSE [tabla |-> t, resp |-> Resp(400, "IntegrityError")]

\* main.py restaurar_bus, the whole handler: the SELECT of the inactive row,
\* then the UPDATE
main_restaurar_bus_run(t, ts, bus_id) ==
    IF ~ExisteInactivo(t, bus_id) THEN [tabla |-> t, resp |-> Resp(404, "NotFound")]
    ELSE [tabla |-> SetActivo(t, ts, bus_id, TRUE), resp |-> Resp(200, "none")]

---------------------------------------------------------------------------
(* schemas/buses.py and crud/buses.py: BusRepository.  The repository      *)
(* reads estado_id and tipo_combustible_id from its input and writes the   *)
(* table the router writes; its input is a schemas.BusCrear or             *)
(* schemas.BusActualizar, so the schema's checks precede it.  status 0:    *)
(* the repository gives no HTTP status; "error" names the exception.       *)

SchemaPatenteMin == 6
SchemaPatenteMax == 10
SchemaAnioMax == 2030
SchemaCapacidadMax == 100

\* Field(min_length=6, max_length=10), then validar_patente
schema_patente_valida(patente) ==
    /\ Len(patente) >= SchemaPatenteMin
    /\ Len(patente) <= SchemaPatenteMax
    /\ ~PatenteLargoInvalido(LimpiarPatente(patente))

\* schemas.BusCrear: does the input pass?
schema_BusCrear(d) ==
    /\ schema_patente_valida(d.patente)
    /\ d.anio >= AnioMinimo /\ d.anio <= SchemaAnioMax
    /\ d.anio <= AnioActual + 1
    /\ d.capacidad_sentados > 0 /\ d.capacidad_sentados <= SchemaCapacidadMax
    /\ (d.kilometraje_actual # <<>> => d.kilometraje_actual[1] >= 0)

\* schemas.BusActualizar: does the input pass?
schema_BusActualizar(d) ==
    /\ "patente" \in DOMAIN d => schema_patente_valida(d.patente)
    /\ "anio" \in DOMAIN d => (d.anio >= AnioMinimo /\ d.anio <= SchemaAnioMax)
    /\ "capacidad_sentados" \in DOMAIN d =>
            (d.capacidad_sentados > 0 /\ d.capacidad_sentados <= SchemaCapacidadMax)
    /\ "kilometraje_actual" \in DOMAIN d => d.kilometraje_actual >= 0

\* find_by_id without its "esta_activo == True": what C12 rules out
find_by_id_sin_filtro(t, bus_id) == {i \in DOMAIN t : i = bus_id}

\* BusRepository.find_by_id
find_by_id(t, bus_id) == {i \in DOMAIN t : i = bus_id /\ t[i].esta_activo}

\* BusRepository.find_by_patente
find_by_patente(t, patente) ==
    {i \in DOMAIN t : t[i].patente = LimpiarPatente(patente) /\ t[i].esta_activo}

\* BusRepository.find_by_estado_codigo
find_by_estado_codigo(t, codigo_estado) ==
    {i \in DOMAIN t :
        /\ ExisteEstado(t[i].estado_id)
        /\ EstadosBuses[t[i].estado_id].codigo = Upper(codigo_estado)
        /\ t[i].esta_activo}

\* BusRepository.find_by_marca
find_by_marca(t, marca) ==
    {i \in DOMAIN t : ILike(t[i].marca, marca) /\ t[i].esta_activo}

\* search without its "esta_activo == True": what C1 rules out
search_sin_filtro(t, termino) ==
    {i \in DOMAIN t :
        \/ ILike(t[i].patente, termino)
        \/ ILike(t[i].marca, termino)
        \/ ILike(t[i].modelo, termino)
        \/ ILikeNullable(t[i].codigo_interno, termino)}

\* BusRepository.search
search(t, termino) ==
    {i \in DOMAIN t :
        /\ \/ ILike(t[i].patente, termino)
           \/ ILike(t[i].marca, termino)
           \/ ILike(t[i].modelo, termino)
           \/ ILikeNullable(t[i].codigo_interno, termino)
        /\ t[i].esta_activo}

\* the orders in which a query with no ORDER BY may give the rows of S
Ordenes(S) ==
    {p \in [1..Cardinality(S) -> S] : \A i, j \in DOMAIN p : i # j => p[i] # p[j]}

\* rows skip+1 .. skip+limit of p
Pagina(p, skip, limit) ==
    SubSeq(p, skip + 1, IF skip + limit < Len(p) THEN skip + limit ELSE Len(p))

\* BusRepository.find_all_with_details: the answers it may give
find_all_with_details(t, skip, limit) ==
    {Pagina(p, skip, limit) : p \in Ordenes({i \in DOMAIN t : t[i].esta_activo})}

\* BusRepository.create
create(t, ts, raw) ==
    LET d   == BusCrear(raw)
        v   == [d EXCEPT !.patente = LimpiarPatente(d.patente),
                         !.kilometraje_actual =
                             IF @ = <<>> THEN <<0>> ELSE @]
        ins == InsertBus(t, ts, v)
    IN  IF ~schema_BusCrear(d)
            THEN [tabla |-> t, id |-> 0, resp |-> Resp(0, "ValidationError")]
        ELSE IF ~ExisteEstado(d.estado_id)
            THEN [tabla |-> t, id |-> 0, resp |-> Resp(0, "UnknownState")]
        ELSE IF ~ExisteTipoCombustible(d.tipo_combustible_id)
            THEN [tabla |-> t, id |-> 0, resp |-> Resp(0, "UnknownFuelType")]
        ELSE IF ins.ok
            THEN [tabla |-> ins.tabla, id |-> ins.id, resp |-> Resp(0, "none")]
        ELSE [tabla |-> t, id |-> 0, resp |-> Resp(0, "IntegrityError")]

\* the session's flush at commit.  snap is the row as find_by_id loaded it;
\* the UPDATE names the attributes whose value differs from the loaded one,
\* fecha_actualizacion taking its onupdate value; no UPDATE if none differs
Flush(t, ts, id, snap, sets) ==
    LET sucios == {f \in DOMAIN sets : sets[f] # snap[f]}
    IN  IF sucios = {} THEN [ok |-> TRUE, tabla |-> t]
        ELSE UpdateBus(t, ts, id, [f \in sucios |-> sets[f]])

\* BusRepository.update, "for field, value in update_data.items(): setattr"
update_campos(d) ==
    [f \in DOMAIN d |->
        IF f = "patente" THEN LimpiarPatente(d.patente) ELSE Celda(f, d[f])]

\* BusRepository.update
update(t, ts, bus_id, d) ==
    LET fl == Flush(t, ts, bus_id, t[bus_id], update_campos(d))
    IN  IF ~schema_BusActualizar(d)
            THEN [tabla |-> t, resp |-> Resp(0, "ValidationError")]
        ELSE IF find_by_id(t, bus_id) = {}
            THEN [tabla |-> t, resp |-> Resp(0, "NotFound")]
        ELSE IF "estado_id" \in DOMAIN d /\ ~ExisteEstado(d.estado_id)
            THEN [tabla |-> t, resp |-> Resp(0, "UnknownState")]
        ELSE IF "tipo_combustible_id" \in DOMAIN d
                /\ ~ExisteTipoCombustible(d.tipo_combustible_id)
            THEN [tabla |-> t, resp |-> Resp(0, "UnknownFuelType")]
        ELSE IF fl.ok THEN [tabla |-> fl.tabla, resp |-> Resp(0, "none")]
        ELSE [tabla |-> t, resp |-> Resp(0, "IntegrityError")]

\* BusRepository.soft_delete: ret is the bool it returns; it raises nothing
soft_delete(t, ts, bus_id) ==
    IF find_by_id(t, bus_id) = {}
    THEN [tabla |-> t, ret |-> FALSE]
    ELSE [tabla |-> SetActivo(t, ts, bus_id, FALSE), ret |-> TRUE]

---------------------------------------------------------------------------
(* Requests the clients send *)

\* "ABCD-12"
ABCD_12 == <<"A","B","C","D","-","1","2">>
\* "abcd 12"
abcd_12 == <<"a","b","c","d"," ","1","2">>
\* "BCDF21"
BCDF21 == <<"B","C","D","F","2","1">>
\* "xy-1234"
xy_1234 == <<"x","y","-","1","2","3","4">>
\* "AB--12": six characters, four once cleaned
AB__12 == <<"A","B","-","-","1","2">>
\* "ABCDE1234": nine characters, cleaned or not
ABCDE1234 == <<"A","B","C","D","E","1","2","3","4">>

Volvo == <<"V","o","l","v","o">>
Scania == <<"S","c","a","n","i","a">>
B270 == <<"B","2","7","0">>

Solicitud(patente, marca, capacidad, anio, estado_id, tipo_id) ==
    [patente |-> patente, marca |-> marca, modelo |-> B270, anio |-> anio,
     capacidad_sentados |-> capacidad, estado_id |-> estado_id,
     tipo_combustible_id |-> tipo_id]

\* the ids requests name; one that names no row exists until the table is full
BusIds == 1..MaxBuses

\* POST bodies
CrearInputs ==
    {Solicitud(p, Volvo, 45, 2019, 1, 1) :
        p \in {ABCD_12, abcd_12, BCDF21, AB__12, ABCDE1234}}
    \cup {Solicitud(xy_1234, Scania, 1, 2019, 2, 1),
          Solicitud(BCDF21, Volvo, 0, 2019, 1, 1),
          Solicitud(BCDF21, Volvo, 46, 2019, 1, 1),
          Solicitud(BCDF21, Volvo, 45, 1979, 1, 1),
          Solicitud(BCDF21, Volvo, 45, AnioActual + 2, 1, 1),
          Solicitud(BCDF21, Volvo, 45, 2019, 99, 1),
          Solicitud(BCDF21, Volvo, 45, 2019, 1, 99)}

\* PUT bodies: the fields a request supplies
ActualizarInputs ==
    {[capacidad_sentados |-> 50],
     [marca |-> Scania, capacidad_sentados |-> 50],
     [patente |-> abcd_12],
     [patente |-> BCDF21, marca |-> Volvo],
     [patente |-> AB__12, marca |-> Scania],
     [patente |-> ABCDE1234],
     [estado_id |-> 3, tipo_combustible_id |-> 2],
     [estado_id |-> 99],
     [tipo_combustible_id |-> 99],
     <<>>}

---------------------------------------------------------------------------
(* The state machine.  In Spec every request runs alone: one action per    *)
(* handler, each the whole handler, all within one reading of the clock.   *)

Clients == {1, 2}

Idle == [pc |-> "idle", op |-> "none", id |-> 0, d |-> <<>>, snap |-> <<>>,
         resp |-> [status |-> 0, error |-> "none"]]

\* no call of such a function is being followed
SinLlamada == [f |-> "none"]

Init ==
    /\ buses = <<>>
    /\ now = 0
    /\ req = [c \in Clients |-> Idle]
    /\ llamada = SinLlamada

\* the clock of the database advances
Tick ==
    /\ now < MaxClock
    /\ now' = now + 1
    /\ UNCHANGED <<buses, req, llamada>>

\* the table after a request, the table never growing past MaxBuses
Escribir(tabla) ==
    /\ Cardinality(DOMAIN tabla) <= MaxBuses
    /\ buses' = tabla
    /\ UNCHANGED <<now, req, llamada>>

\* POST /  (router)
crear_bus(raw) == Escribir(crear_bus_run(buses, now, raw).tabla)

\* PUT /{bus_id}  (router)
actualizar_bus(bus_id, d) == Escribir(actualizar_bus_run(buses, now, bus_id, d).tabla)

\* DELETE /{bus_id}  (router)
eliminar_bus(bus_id) == Escribir(eliminar_bus_run(buses, now, bus_id).tabla)

\* PATCH /{bus_id}/restaurar  (router)
restaurar_bus(bus_id) == Escribir(restaurar_bus_run(buses, now, bus_id).tabla)

\* POST /api/v1/buses  (main.py)
Main_crear_bus(raw) == Escribir(main_crear_bus_run(buses, now, raw).tabla)

\* PUT /api/v1/buses/{bus_id}  (main.py)
Main_actualizar_bus(bus_id, d) ==
    Escribir(main_actualizar_bus_run(buses, now, bus_id, d).tabla)

\* PATCH /api/v1/buses/{bus_id}/restaurar  (main.py)
Main_restaurar_bus(bus_id) ==
    Escribir(main_restaurar_bus_run(buses, now, bus_id).tabla)

\* BusRepository.create
Repo_create(raw) == Escribir(create(buses, now, raw).tabla)

\* BusRepository.update
Repo_update(bus_id, d) == Escribir(update(buses, now, bus_id, d).tabla)

\* BusRepository.soft_delete
Repo_soft_delete(bus_id) == Escribir(soft_delete(buses, now, bus_id).tabla)

Next ==
    \/ \E raw \in CrearInputs : crear_bus(raw)
    \/ \E id \in BusIds, d \in ActualizarInputs : actualizar_bus(id, d)
    \/ \E id \in BusIds : eliminar_bus(id)
    \/ \E id \in BusIds : restaurar_bus(id)
    \/ \E raw \in CrearInputs : Main_crear_bus(raw)
    \/ \E id \in BusIds, d \in ActualizarInputs : Main_actualizar_bus(id, d)
    \/ \E id \in BusIds : Main_restaurar_bus(id)
    \/ \E raw \in CrearInputs : Repo_create(raw)
    \/ \E id \in BusIds, d \in ActualizarInputs : Repo_update(id, d)
    \/ \E id \in BusIds : Repo_soft_delete(id)

Spec == Init /\ [][Next]_vars


---------------------------------------------------------------------------
(* SpecReloj: the requests run alone, as in Spec, and the clock of the     *)
(* database advances between them, so that fecha_actualizacion tells when  *)
(* a row was last written.  Fewer bodies than in Spec.                     *)

CrearInputsReloj ==
    {Solicitud(ABCD_12, Volvo, 45, 2019, 1, 1),
     Solicitud(xy_1234, Scania, 1, 2019, 2, 1)}

ActualizarInputsReloj ==
    {[marca |-> Scania, capacidad_sentados |-> 50],
     [patente |-> abcd_12],
     [patente |-> BCDF21, marca |-> Volvo]}

NextReloj ==
    \/ Tick
    \/ \E raw \in CrearInputsReloj : crear_bus(raw)
    \/ \E id \in BusIds, d \in ActualizarInputsReloj : actualizar_bus(id, d)
    \/ \E id \in BusIds, d \in ActualizarInputsReloj : Main_actualizar_bus(id, d)
    \/ \E id \in BusIds, d \in ActualizarInputsReloj : Repo_update(id, d)
    \/ \E id \in BusIds : eliminar_bus(id)
    \/ \E id \in BusIds : Repo_soft_delete(id)
    \/ \E id \in BusIds : restaurar_bus(id)

SpecReloj == Init /\ [][NextReloj]_vars

---------------------------------------------------------------------------
(* SpecConc: two clients, each with a connection of its own.  A handler is *)
(* a sequence of statements; a statement reads the rows committed so far   *)
(* (READ COMMITTED) and a write is committed by the statement that follows *)
(* it in the code, so a write and its commit are one step.  req[c] is the  *)
(* request of client c: where the handler stands, what it holds, and the   *)
(* response once it has answered.                                          *)

Peticion(pc, op, id, d, snap, resp) ==
    [pc |-> pc, op |-> op, id |-> id, d |-> d, snap |-> snap, resp |-> resp]

EnCurso(pc, op, id, d, snap) == Peticion(pc, op, id, d, snap, Resp(0, "none"))

Respondida(op, resp) == Peticion("done", op, 0, <<>>, <<>>, resp)

CrearInputsConc ==
    {Solicitud(ABCD_12, Volvo, 45, 2019, 1, 1),
     Solicitud(abcd_12, Volvo, 45, 2019, 1, 1)}

ActualizarInputsConc ==
    {[marca |-> Scania, capacidad_sentados |-> 50],
     [patente |-> BCDF21, marca |-> Volvo]}

\* client c moves to r, the table staying as it is
Pasa(c, r) ==
    /\ req' = [req EXCEPT ![c] = r]
    /\ UNCHANGED <<buses, now, llamada>>

\* client c commits tabla and moves to r
Confirma(c, tabla, r) ==
    /\ buses' = tabla
    /\ req' = [req EXCEPT ![c] = r]
    /\ UNCHANGED <<now, llamada>>

\* a request that may insert is taken while the table has room for its row
HayLugar ==
    Cardinality(DOMAIN buses)
        + Cardinality({k \in Clients : req[k].pc = "insertar"}) < MaxBuses

\* crear_bus (router and main.py) up to the INSERT: the field checks and the
\* three SELECTs
crear_bus_select(c, op, raw) ==
    /\ req[c].pc = "idle"
    /\ HayLugar
    /\ LET d == BusCrear(raw)
           v == crear_bus_validar(d)
           q == crear_bus_consultar(buses, d)
       IN  Pasa(c, IF ~Ok(v) THEN Respondida(op, v)
                   ELSE IF ~Ok(q) THEN Respondida(op, q)
                   ELSE EnCurso("insertar", op, 0, d, <<>>))

\* crear_bus of the router: the INSERT and its commit
crear_bus_insert(c) ==
    /\ req[c].pc = "insertar" /\ req[c].op = "crear_bus"
    /\ LET r == crear_bus_insertar(buses, now, req[c].d)
       IN  Confirma(c, r.tabla, Respondida("crear_bus", r.resp))

\* crear_bus of main.py: the INSERT and its commit
main_crear_bus_insert(c) ==
    /\ req[c].pc = "insertar" /\ req[c].op = "main_crear_bus"
    /\ LET r == main_crear_bus_insertar(buses, now, req[c].d)
       IN  Confirma(c, r.tabla, Respondida("main_crear_bus", r.resp))

\* BusRepository.create: the reference tables never change, so the two
\* queries and the INSERT of the commit are one step
Repo_create_commit(c, raw) ==
    /\ req[c].pc = "idle"
    /\ HayLugar
    /\ LET r == create(buses, now, raw)
       IN  Confirma(c, r.tabla, Respondida("create", r.resp))

\* actualizar_bus of the router, "Verificar que existe"
actualizar_bus_select(c, id, d) ==
    /\ req[c].pc = "idle"
    /\ Pasa(c, IF ~ExisteActivo(buses, id)
               THEN Respondida("actualizar_bus", Resp(404, "NotFound"))
               ELSE EnCurso("patente", "actualizar_bus", id, d, <<>>))

\* actualizar_bus of the router, the patente block with its SELECT
actualizar_bus_select_patente(c) ==
    /\ req[c].pc = "patente"
    /\ LET p == actualizar_bus_patente(buses, req[c].id, req[c].d)
       IN  Pasa(c, IF ~Ok(p) THEN Respondida("actualizar_bus", p)
                   ELSE [req[c] EXCEPT !.pc = "ejecutar"])

\* actualizar_bus of the router, the UPDATE and its commit
actualizar_bus_update(c) ==
    /\ req[c].pc = "ejecutar"
    /\ LET r == actualizar_bus_ejecutar(buses, now, req[c].id, req[c].d)
       IN  Confirma(c, r.tabla, Respondida("actualizar_bus", r.resp))

\* BusRepository.update, find_by_id: the session keeps the row it loaded
Repo_update_query(c, id, d) ==
    /\ req[c].pc = "idle"
    /\ schema_BusActualizar(d)
    /\ Pasa(c, IF find_by_id(buses, id) = {}
               THEN Respondida("update", Resp(0, "NotFound"))
               ELSE EnCurso("commit", "update", id, d, buses[id]))

\* BusRepository.update, setattr and commit
Repo_update_commit(c) ==
    /\ req[c].pc = "commit" /\ req[c].op = "update"
    /\ LET fl == Flush(buses, now, req[c].id, req[c].snap, update_campos(req[c].d))
       IN  Confirma(c, fl.tabla,
                    Respondida("update", Resp(0, IF fl.ok THEN "none"
                                                 ELSE "IntegrityError")))

\* eliminar_bus / restaurar_bus of the router, the SELECT
activo_select(c, op, id) ==
    /\ req[c].pc = "idle"
    /\ LET hay == IF op = "eliminar_bus" THEN ExisteActivo(buses, id)
                  ELSE ExisteInactivo(buses, id)
       IN  Pasa(c, IF ~hay THEN Respondida(op, Resp(404, "NotFound"))
                   ELSE EnCurso("activo", op, id, <<>>, <<>>))

\* eliminar_bus / restaurar_bus of the router, the UPDATE and its commit
activo_update(c) ==
    /\ req[c].pc = "activo"
    /\ Confirma(c, SetActivo(buses, now, req[c].id, req[c].op = "restaurar_bus"),
                Respondida(req[c].op, Resp(200, "none")))

\* the client reads the response; it may send its next request
Responder(c) ==
    /\ req[c].pc = "done"
    /\ Pasa(c, Idle)

NextConc ==
    \/ \E c \in Clients, raw \in CrearInputsConc : crear_bus_select(c, "crear_bus", raw)
    \/ \E c \in Clients, raw \in CrearInputsConc : crear_bus_select(c, "main_crear_bus", raw)
    \/ \E c \in Clients : crear_bus_insert(c)
    \/ \E c \in Clients : main_crear_bus_insert(c)
    \/ \E c \in Clients, raw \in CrearInputsConc : Repo_create_commit(c, raw)
    \/ \E c \in Clients, id \in BusIds, d \in ActualizarInputsConc :
            actualizar_bus_select(c, id, d)
    \/ \E c \in Clients : actualizar_bus_select_patente(c)
    \/ \E c \in Clients : actualizar_bus_update(c)
    \/ \E c \in Clients, id \in BusIds, d \in ActualizarInputsConc :
            Repo_update_query(c, id, d)
    \/ \E c \in Clients : Repo_update_commit(c)
    \/ \E c \in Clients, id \in BusIds : activo_select(c, "eliminar_bus", id)
    \/ \E c \in Clients, id \in BusIds : activo_select(c, "restaurar_bus", id)
    \/ \E c \in Clients : activo_update(c)
    \/ \E c \in Clients : Responder(c)

SpecConc == Init /\ [][NextConc]_vars

---------------------------------------------------------------------------
(* Queries the clients send *)

PatenteQueries == {ABCD_12, abcd_12, BCDF21, xy_1234}

CodigoQueries == {<<"a","c","t">>, <<"M","A","N">>}

TerminoQueries == {<<"v","o","l">>, <<"S","C","A">>, <<"b","c">>, <<"2","7">>}

Paginas == {<<0, 100>>, <<0, 1>>, <<1, 1>>}

\* the ids of the rows a sequence of rows holds
Rango(p) == {p[i] : i \in DOMAIN p}

\* the rows of t that are soft-deleted, read off the table itself
Inactivos(t) == {i \in DOMAIN t : t[i].esta_activo = FALSE}

---------------------------------------------------------------------------
(* C1 *)

\* C1: no read operation of the repository or the router (find_by_id,
\* find_by_patente, find_all_with_details, find_by_estado_codigo,
\* find_by_marca, search, obtener_bus, listar_buses) ever answers a row
\* whose esta_activo is false.
C1_InactiveNeverReturned ==
    \A i \in Inactivos(buses) :
        /\ \A id \in BusIds : i \notin find_by_id(buses, id)
        /\ \A id \in BusIds : i \notin obtener_bus(buses, id).rows
        /\ i \notin listar_buses(buses)
        /\ \A p \in PatenteQueries : i \notin find_by_patente(buses, p)
        /\ \A c \in CodigoQueries : i \notin find_by_estado_codigo(buses, c)
        /\ \A m \in TerminoQueries : i \notin find_by_marca(buses, m)
        /\ \A q \in TerminoQueries : i \notin search(buses, q)
        /\ \A pg \in Paginas :
              \A r \in find_all_with_details(buses, pg[1], pg[2]) : i \notin Rango(r)

\* a soft-deleted Volvo with plate ABCD12 and state ACT lies in the table
\* beside an active row that the same searches answer
C1_Witness ==
    \E i \in Inactivos(buses), j \in DOMAIN buses \ Inactivos(buses) :
        /\ buses[i].patente = LimpiarPatente(ABCD_12)
        /\ buses[i].marca = Volvo
        /\ buses[i].estado_id = 1
        /\ j \in search(buses, <<"v","o","l">>)
        /\ j \in find_by_estado_codigo(buses, <<"a","c","t">>)
        /\ j \in listar_buses(buses)

---------------------------------------------------------------------------
(* C2 *)

\* C2: after eliminar_bus(id) succeeds, obtener_bus(id) answers NotFound and
\* id is in listar_buses_eliminados; after restaurar_bus(id) then succeeds,
\* obtener_bus(id) answers the row and id is no longer in
\* listar_buses_eliminados.
C2_SoftDeleteThenRestore ==
    \A id \in BusIds :
        LET del == eliminar_bus_run(buses, now, id)
            res == restaurar_bus_run(del.tabla, now, id)
        IN  del.resp.error = "none" =>
                /\ obtener_bus(del.tabla, id).resp.error = "NotFound"
                /\ id \in listar_buses_eliminados(del.tabla)
                /\ res.resp.error = "none"
                /\ obtener_bus(res.tabla, id).rows = {id}
                /\ id \notin listar_buses_eliminados(res.tabla)

\* a row has been soft-deleted and another one is active, so that both an
\* eliminar_bus and a restaurar_bus succeed from this state
C2_Witness ==
    /\ \E id \in BusIds : eliminar_bus_run(buses, now, id).resp.error = "none"
    /\ \E id \in Inactivos(buses) :
          /\ restaurar_bus_run(buses, now, id).resp.error = "none"
          /\ obtener_bus(buses, id).resp.error = "NotFound"

---------------------------------------------------------------------------
(* C8 *)

\* the rows and columns a successful update of row id with the fields of d
\* may change between t and t2: none but the fields of d and
\* fecha_actualizacion in row id
SoloCambia(t, t2, id, d) ==
    /\ DOMAIN t2 = DOMAIN t
    /\ \A j \in DOMAIN t : j # id => t2[j] = t[j]
    /\ id \in DOMAIN t =>
          \A f \in Columnas \ (DOMAIN d \cup {"fecha_actualizacion"}) :
              t2[id][f] = t[id][f]

\* C8: an update that succeeds (actualizar_bus of the router, actualizar_bus
\* of main.py, BusRepository.update) leaves every field the request did not
\* supply as it was, fecha_actualizacion aside, and leaves every other row
\* as it was.
C8_UpdateFrame ==
    \A id \in BusIds, d \in ActualizarInputs :
        LET r == actualizar_bus_run(buses, now, id, d)
            m == main_actualizar_bus_run(buses, now, id, d)
            u == update(buses, now, id, d)
        IN  /\ r.resp.error = "none" => SoloCambia(buses, r.tabla, id, d)
            /\ m.resp.error = "none" => SoloCambia(buses, m.tabla, id, d)
            /\ u.resp.error = "none" => SoloCambia(buses, u.tabla, id, d)

\* two rows, one of them updated after the clock advanced (its capacity is
\* one no create gives) while the other kept its fecha_actualizacion, and an
\* update of a row's plate alone succeeds and changes the row
C8_Witness ==
    /\ Cardinality(DOMAIN buses) = 2
    /\ \E i, j \in DOMAIN buses :
          /\ buses[i].capacidad_sentados = 50
          /\ buses[i].fecha_actualizacion > buses[j].fecha_actualizacion
    /\ \E id \in BusIds, d \in ActualizarInputs :
          LET r == actualizar_bus_run(buses, now, id, d)
          IN  /\ DOMAIN d = {"patente"}
              /\ r.resp.error = "none"
              /\ r.tabla[id].patente # buses[id].patente

---------------------------------------------------------------------------
(* C10 *)

\* C10: an update (router, main.py, BusRepository) of an id that names no
\* row, or a soft-deleted row, answers NotFound and leaves the table as it
\* was.  BusRepository.update is given inputs its schema accepts.
C10_UpdateMissingNotFound ==
    \A id \in BusIds, d \in ActualizarInputs :
        (id \notin DOMAIN buses \/ id \in Inactivos(buses)) =>
            LET r == actualizar_bus_run(buses, now, id, d)
                m == main_actualizar_bus_run(buses, now, id, d)
                u == update(buses, now, id, d)
            IN  /\ r.resp = Resp(404, "NotFound") /\ r.tabla = buses
                /\ m.resp = Resp(404, "NotFound") /\ m.tabla = buses
                /\ schema_BusActualizar(d) =>
                      (u.resp.error = "NotFound" /\ u.tabla = buses)

\* one row is soft-deleted, one id names no row, and an update of the
\* soft-deleted row is answered NotFound
C10_Witness ==
    /\ \E id \in BusIds : id \notin DOMAIN buses
    /\ \E id \in Inactivos(buses), d \in ActualizarInputs :
          /\ DOMAIN d # {}
          /\ actualizar_bus_run(buses, now, id, d).resp.error = "NotFound"

---------------------------------------------------------------------------
(* C4 *)

\* C4: a create (crear_bus of the router, BusRepository.create) whose input
\* passes the field checks, names a state and a fuel type that exist, and
\* whose cleaned plate is the plate of an active
\* row fails with DuplicatePlate and leaves the table as it was.
\* BusRepository.create has no check of the plate before its INSERT: the
\* UNIQUE constraint refuses the row and the caller gets sqlalchemy's
\* IntegrityError.
C4_DuplicateCreateRejected ==
    \A raw \in CrearInputs :
        (/\ \E i \in DOMAIN buses \ Inactivos(buses) :
                  buses[i].patente = LimpiarPatente(raw.patente)
         /\ ExisteEstado(raw.estado_id)
         /\ ExisteTipoCombustible(raw.tipo_combustible_id)) =>
            LET r == crear_bus_run(buses, now, raw)
                c == create(buses, now, raw)
            IN  /\ crear_bus_validar(BusCrear(raw)).error = "none" =>
                      (r.resp = Resp(400, "DuplicatePlate") /\ r.tabla = buses)
                /\ schema_BusCrear(BusCrear(raw)) =>
                      (c.resp.error = "DuplicatePlate" /\ c.tabla = buses)

---------------------------------------------------------------------------
(* C6 *)

\* C6: every stored row has 1 <= capacidad_sentados <= 45, in every state.
\* actualizar_bus of the router and BusRepository.update write the capacity
\* a request supplies without comparing it to the range.
C6_CapacityInRange ==
    \A i \in DOMAIN buses :
        /\ buses[i].capacidad_sentados >= CapacidadMinima
        /\ buses[i].capacidad_sentados <= CapacidadMaxima

---------------------------------------------------------------------------
(* C7 *)

\* C7: an update that supplies capacidad_sentados = 50 for an active row
\* fails with InvalidCapacity and leaves the stored capacity as it was, in
\* the router's actualizar_bus as in main.py's.
C7_UpdateCapacity50Rejected ==
    \A id \in DOMAIN buses \ Inactivos(buses) :
        LET d == [capacidad_sentados |-> 50]
            r == actualizar_bus_run(buses, now, id, d)
            m == main_actualizar_bus_run(buses, now, id, d)
        IN  /\ m.resp = Resp(400, "InvalidCapacity")
            /\ m.tabla[id].capacidad_sentados = buses[id].capacidad_sentados
            /\ r.resp = Resp(400, "InvalidCapacity")
            /\ r.tabla[id].capacidad_sentados = buses[id].capacidad_sentados

---------------------------------------------------------------------------
(* C3 *)

\* C3: in every state the clients can reach by any interleaving of the
\* statements of create, update, soft delete and restore, no two active rows
\* hold the same cleaned plate.
C3_PlateUniqueAmongActive ==
    \A i, j \in DOMAIN buses \ Inactivos(buses) :
        i # j => LimpiarPatente(buses[i].patente) # LimpiarPatente(buses[j].patente)

\* two active rows, while a client whose create passed the SELECT of the
\* plate had its row refused by the table and another client is on its way
\* to an UPDATE or an INSERT
C3_Witness ==
    /\ Cardinality(DOMAIN buses \ Inactivos(buses)) = 2
    /\ \E c, k \in Clients :
          /\ req[c].pc = "done"
          /\ req[c].op \in {"crear_bus", "create"}
          /\ req[c].resp.error \in {"InternalError", "IntegrityError"}
          /\ req[k].pc \in {"insertar", "ejecutar", "commit", "activo"}

---------------------------------------------------------------------------
(* C5 *)

\* C5: when a crear_bus has passed the SELECT of the plate and another
\* request has since committed a row with that plate, its INSERT adds no row
\* and the request is answered with the 400 of a duplicate plate, never with
\* a 500.  The router's crear_bus answers 500: psycopg2.IntegrityError is
\* caught by "except Exception".
C5_ConcurrentCreateLoser ==
    \A c \in Clients :
        (/\ req[c].pc = "insertar"
         /\ \E i \in DOMAIN buses :
               buses[i].patente = LimpiarPatente(req[c].d.patente)) =>
            LET r == IF req[c].op = "crear_bus"
                     THEN crear_bus_insertar(buses, now, req[c].d)
                     ELSE main_crear_bus_insertar(buses, now, req[c].d)
            IN  /\ r.tabla = buses
                /\ r.resp.status = 400

---------------------------------------------------------------------------
(* C9 *)

\* C9: the step in which an update answers (the UPDATE of the router's
\* actualizar_bus, the commit of BusRepository.update) leaves the row with
\* every supplied field at its new value or with every supplied field as it
\* was; never with some of them written and others not.
\* BusRepository.update writes the attributes that differ from the row its
\* find_by_id loaded: when another request changed the row in between, a
\* supplied field equal to the loaded value is not written.
C9_UpdateAllOrNothing ==
    [][\A c \in Clients :
          (/\ req[c].pc \in {"ejecutar", "commit"}
           /\ req[c].op \in {"actualizar_bus", "update"}
           /\ req'[c].pc = "done") =>
              LET id  == req[c].id
                  new == update_campos(req[c].d)
              IN  \/ \A f \in DOMAIN new : buses'[id][f] = new[f]
                  \/ \A f \in DOMAIN new : buses'[id][f] = buses[id][f]]_vars

---------------------------------------------------------------------------
(* C11 *)

\* the active rows of t other than id that hold the plate p
OtrosConPatente(t, id, p) ==
    {j \in DOMAIN t \ Inactivos(t) : j # id /\ t[j].patente = p}

\* C11: an update of the plate of an active row cleans the plate and checks
\* it against the other rows: a plate that cleans to the row's own plate is
\* accepted, a plate that cleans to the plate of another active row is
\* refused with DuplicatePlate and the table is left as it was; in the
\* router's actualizar_bus as in BusRepository.update.
\* BusRepository.update has no check of the plate: the UNIQUE constraint
\* refuses the UPDATE and the caller gets sqlalchemy's IntegrityError.
C11_UpdatePlateUniqueness ==
    \A id \in DOMAIN buses \ Inactivos(buses), d \in ActualizarInputs :
        ("patente" \in DOMAIN d /\ schema_BusActualizar(d)) =>
            LET p == LimpiarPatente(d.patente)
                r == actualizar_bus_run(buses, now, id, d)
                u == update(buses, now, id, d)
            IN  /\ (p = buses[id].patente) =>
                      (r.resp.error = "none" /\ u.resp.error = "none")
                /\ (OtrosConPatente(buses, id, p) # {}) =>
                      /\ r.resp = Resp(400, "DuplicatePlate") /\ r.tabla = buses
                      /\ u.resp.error = "DuplicatePlate" /\ u.tabla = buses

---------------------------------------------------------------------------
(* C12 *)

\* between t and t2 nothing changed but esta_activo and fecha_actualizacion
\* of row id
SoloActivo(t, t2, id) ==
    /\ DOMAIN t2 = DOMAIN t
    /\ \A j \in DOMAIN t :
          \A f \in Columnas :
              (j # id \/ f \notin {"esta_activo", "fecha_actualizacion"}) =>
                  t2[j][f] = t[j][f]

\* C12: BusRepository.soft_delete(id) returns True and sets esta_activo to
\* false exactly when row id exists and is active; otherwise it returns
\* False, raises nothing and leaves the table as it was, so a second
\* soft_delete(id) right after a successful one returns False.  The router's
\* eliminar_bus does the same, its answer for False being the 404.
C12_SoftDeleteReturn ==
    \A id \in BusIds :
        LET s  == soft_delete(buses, now, id)
            s2 == soft_delete(s.tabla, now, id)
            e  == eliminar_bus_run(buses, now, id)
            e2 == eliminar_bus_run(e.tabla, now, id)
        IN  IF id \in DOMAIN buses /\ id \notin Inactivos(buses)
            THEN /\ s.ret = TRUE
                 /\ s.tabla[id].esta_activo = FALSE
                 /\ SoloActivo(buses, s.tabla, id)
                 /\ s2.ret = FALSE /\ s2.tabla = s.tabla
                 /\ e.resp = Resp(200, "none")
                 /\ e.tabla[id].esta_activo = FALSE
                 /\ SoloActivo(buses, e.tabla, id)
                 /\ e2.resp = Resp(404, "NotFound") /\ e2.tabla = e.tabla
            ELSE /\ s.ret = FALSE /\ s.tabla = buses
                 /\ e.resp = Resp(404, "NotFound") /\ e.tabla = buses

\* the table holds an active row, which a soft_delete accepts, beside a
\* soft-deleted one, which it refuses
C12_Witness ==
    \E i, j \in DOMAIN buses :
        /\ soft_delete(buses, now, i).ret = TRUE
        /\ buses[j].esta_activo = FALSE
        /\ soft_delete(buses, now, j).ret = FALSE

---------------------------------------------------------------------------
(* C13 *)

\* C13: restaurar_bus (router and main.py) sets esta_activo to true on a row
\* that exists and is inactive, and on that row alone; for an id that names
\* no row or an active row it answers NotFound and leaves the table as it
\* was.
C13_RestoreOnlyInactive ==
    \A id \in BusIds :
        LET r == restaurar_bus_run(buses, now, id)
            m == main_restaurar_bus_run(buses, now, id)
        IN  IF id \in Inactivos(buses)
            THEN /\ r.resp = Resp(200, "none")
                 /\ r.tabla[id].esta_activo = TRUE
                 /\ SoloActivo(buses, r.tabla, id)
                 /\ m.resp = Resp(200, "none")
                 /\ m.tabla[id].esta_activo = TRUE
                 /\ SoloActivo(buses, m.tabla, id)
            ELSE /\ r.resp = Resp(404, "NotFound") /\ r.tabla = buses
                 /\ m.resp = Resp(404, "NotFound") /\ m.tabla = buses

\* the table holds a soft-deleted row, which a restore accepts, beside an
\* active one, which it refuses
C13_Witness ==
    \E i, j \in DOMAIN buses :
        /\ buses[i].esta_activo = FALSE
        /\ restaurar_bus_run(buses, now, i).resp.error = "none"
        /\ buses[j].esta_activo = TRUE
        /\ restaurar_bus_run(buses, now, j).resp.error = "NotFound"

---------------------------------------------------------------------------
(* C14 *)

\* the request raw breaks a rule of create, read off the request and the
\* table: the length of the cleaned plate, the year, the capacity, the two
\* references, the plate already stored
RompeRegla(t, raw) ==
    \/ Len(LimpiarPatente(raw.patente)) < 6 \/ Len(LimpiarPatente(raw.patente)) > 8
    \/ raw.anio < 1980 \/ raw.anio > AnioActual + 1
    \/ raw.capacidad_sentados < 1 \/ raw.capacidad_sentados > 45
    \/ raw.estado_id \notin 1..4
    \/ raw.tipo_combustible_id \notin 1..5
    \/ \E i \in DOMAIN t : t[i].patente = LimpiarPatente(raw.patente)

\* C14: a create that fails a validation rule writes nothing.  crear_bus of
\* the router and of main.py answer a failure and leave the table as it was
\* for every request that breaks a rule; BusRepository.create leaves the
\* table as it was whenever it raises.
C14_FailedCreateWritesNothing ==
    \A raw \in CrearInputs :
        LET r == crear_bus_run(buses, now, raw)
            m == main_crear_bus_run(buses, now, raw)
            c == create(buses, now, raw)
        IN  /\ RompeRegla(buses, raw) =>
                  /\ r.resp.status = 400 /\ r.tabla = buses
                  /\ m.resp.status = 400 /\ m.tabla = buses
            /\ r.resp.error # "none" => r.tabla = buses
            /\ c.resp.error # "none" => c.tabla = buses

\* a table that holds a row, where one request breaks the rule of the
\* plate's length, one that of the year, one that of the capacity, one names
\* a state that does not exist, one a fuel type that does not exist, and one
\* has the plate of the row
C14_Witness ==
    /\ buses # <<>>
    /\ \A e \in {"InvalidPlateFormat", "InvalidYear", "InvalidCapacity",
                 "UnknownState", "UnknownFuelType", "DuplicatePlate"} :
          \E raw \in CrearInputs : crear_bus_run(buses, now, raw).resp.error = e
    /\ \E raw \in CrearInputs : create(buses, now, raw).resp.error = "IntegrityError"

---------------------------------------------------------------------------
(* C15 *)

---------------------------------------------------------------------------
(* C16 *)

\* the update bodies that name a state or a fuel type that does not exist
\* and break no other rule
ReferenciaAusente ==
    {d \in ActualizarInputs :
        /\ "patente" \notin DOMAIN d
        /\ \/ "estado_id" \in DOMAIN d /\ ~ExisteEstado(d.estado_id)
           \/ "tipo_combustible_id" \in DOMAIN d
                 /\ ~ExisteTipoCombustible(d.tipo_combustible_id)}

\* C16: a create or an update that supplies a state or fuel-type id with no
\* row in its reference table ends with UnknownState or UnknownFuelType, a
\* typed error that is not the generic storage failure, and leaves the table
\* unchanged. The router's actualizar_bus does not: it ends with the generic
\* failure.
C16_UnknownReferenceTyped ==
    /\ \A raw \in CrearInputs :
          LET r == crear_bus_run(buses, now, raw)
          IN  (Ok(crear_bus_validar(raw)) /\ ~ExistePatente(buses, LimpiarPatente(raw.patente))
                 /\ (~ExisteEstado(raw.estado_id)
                       \/ ~ExisteTipoCombustible(raw.tipo_combustible_id)))
              => /\ r.resp.error \in {"UnknownState", "UnknownFuelType"}
                 /\ r.tabla = buses
    /\ \A i \in DOMAIN buses \ Inactivos(buses) : \A d \in ReferenciaAusente :
          LET r == actualizar_bus_run(buses, now, i, d)
          IN  /\ r.resp.error \in {"UnknownState", "UnknownFuelType"}
              /\ r.tabla = buses

---------------------------------------------------------------------------
(* C17 *)

\* a plate in stored form: no lower-case letter, hyphen or space, and six
\* to eight characters
PatenteNormalizada(p) ==
    /\ \A k \in 1..Len(p) : p[k] \notin {"-", " "} /\ UpperChar(p[k]) = p[k]
    /\ Len(p) >= 6 /\ Len(p) <= 8

\* the plate of a request, cleaned, has fewer than six or more than eight
\* characters
PatenteFueraDeRango(p) ==
    Len(LimpiarPatente(p)) < 6 \/ Len(LimpiarPatente(p)) > 8

\* C17: every stored plate is normalized (upper case, no hyphen, no space)
\* and has six to eight characters; a create or an update whose plate
\* normalizes to a length outside 6..8 fails with InvalidPlateFormat (the
\* handlers' 400, the schemas' validation error of validar_patente) and
\* writes nothing.
C17_StoredPlateNormalized ==
    /\ \A i \in DOMAIN buses : PatenteNormalizada(buses[i].patente)
    /\ \A raw \in CrearInputs : PatenteFueraDeRango(raw.patente) =>
          /\ crear_bus_run(buses, now, raw).resp.error = "InvalidPlateFormat"
          /\ crear_bus_run(buses, now, raw).tabla = buses
          /\ main_crear_bus_run(buses, now, raw).resp.error = "InvalidPlateFormat"
          /\ main_crear_bus_run(buses, now, raw).tabla = buses
          /\ ~schema_patente_valida(raw.patente)
          /\ create(buses, now, raw).resp.error = "ValidationError"
          /\ create(buses, now, raw).tabla = buses
    /\ \A i \in DOMAIN buses \ Inactivos(buses) : \A d \in ActualizarInputs :
          ("patente" \in DOMAIN d /\ PatenteFueraDeRango(d.patente)) =>
              /\ actualizar_bus_run(buses, now, i, d).resp.error = "InvalidPlateFormat"
              /\ actualizar_bus_run(buses, now, i, d).tabla = buses
              /\ main_actualizar_bus_run(buses, now, i, d).resp.error
                    = "InvalidPlateFormat"
              /\ main_actualizar_bus_run(buses, now, i, d).tabla = buses
              /\ update(buses, now, i, d).resp.error = "ValidationError"
              /\ update(buses, now, i, d).tabla = buses

\* two rows whose plates were sent as "abcd 12" or "ABCD-12" and as
\* "xy-1234", while a create and an update with "AB--12" and with
\* "ABCDE1234" are refused
C17_Witness ==
    /\ \E i \in DOMAIN buses : buses[i].patente = <<"A","B","C","D","1","2">>
    /\ \E i \in DOMAIN buses \ Inactivos(buses) :
          /\ buses[i].patente = <<"X","Y","1","2","3","4">>
          /\ \E d \in ActualizarInputs :
                /\ "patente" \in DOMAIN d /\ Len(d.patente) = 9
                /\ ~Ok(actualizar_bus_run(buses, now, i, d).resp)
    /\ \E raw \in CrearInputs :
          /\ raw.patente = AB__12
          /\ ~Ok(crear_bus_run(buses, now, raw).resp)

---------------------------------------------------------------------------
(* The cleaning of a plate on its own: validar_patente of the schemas and  *)
(* the first statement of find_by_patente, applied to a plate and then to  *)
(* what they returned.                                                     *)

\* the longest plate drawn from Alfabeto
MaxLargoPatente == 6
\* how many times in a row a plate is cleaned
MaxAplicaciones == 2

Alfabeto == {"a", "B", "-", " "}

\* "ab-c 123"
ab_c_123 == <<"a","b","-","c"," ","1","2","3">>

\* the plates a caller sends
Patentes ==
    UNION {[1..n -> Alfabeto] : n \in 0..MaxLargoPatente}
    \cup {ABCD_12, abcd_12, BCDF21, xy_1234, AB__12, ABCDE1234, ab_c_123}

\* BusBase.validar_patente and BusActualizar.validar_patente: the plate
\* cleaned, or ValueError
validar_patente(v) ==
    LET limpia == LimpiarPatente(v)
    IN  IF PatenteLargoInvalido(limpia)
        THEN [ok |-> FALSE, v |-> v]
        ELSE [ok |-> TRUE, v |-> limpia]

\* a plate arrives
EntradaPatente(p) ==
    [f |-> "entrada", patente |-> p, previa |-> p, veces |-> 0, ok |-> TRUE]

InitPatente ==
    /\ buses = <<>>
    /\ now = 0
    /\ req = [c \in Clients |-> Idle]
    /\ llamada \in {EntradaPatente(p) : p \in Patentes}

\* the validator runs on the plate in hand
Schema_validar_patente ==
    /\ llamada.ok /\ llamada.veces < MaxAplicaciones
    /\ LET r == validar_patente(llamada.patente)
       IN  llamada' = [f |-> "validar_patente", patente |-> r.v,
                       previa |-> llamada.patente,
                       veces |-> llamada.veces + 1, ok |-> r.ok]
    /\ UNCHANGED <<buses, now, req>>

\* find_by_patente runs on the plate in hand: patente_limpia is what it
\* compares the column with
Repo_find_by_patente ==
    /\ llamada.ok /\ llamada.veces < MaxAplicaciones
    /\ llamada' = [f |-> "find_by_patente",
                   patente |-> LimpiarPatente(llamada.patente),
                   previa |-> llamada.patente,
                   veces |-> llamada.veces + 1, ok |-> TRUE]
    /\ UNCHANGED <<buses, now, req>>

NextPatente == Schema_validar_patente \/ Repo_find_by_patente

SpecPatente == InitPatente /\ [][NextPatente]_vars

\* C18: the cleaning of a plate is idempotent: when it has succeeded on a
\* plate and is applied to its result, it returns that result unchanged.
C18_NormalizeIdempotent ==
    (llamada.veces >= 2 /\ llamada.ok) => llamada.patente = llamada.previa

\* a plate with a lower-case letter, a hyphen and a space that the
\* validator accepted and then accepted again
C18_Witness ==
    /\ llamada.f = "validar_patente" /\ llamada.veces = 2 /\ llamada.ok
    /\ llamada.patente = <<"A","B","C","1","2","3">>

---------------------------------------------------------------------------
(* Bus.necesita_mantenimiento on its own: an odometer reading and an       *)
(* interval go in, a boolean comes out.                                    *)

\* the largest odometer reading drawn
MaxKilometraje == 20000

\* the margin of necesita_mantenimiento
MargenMantenimiento == 1000

\* odometer readings: the multiples of 500 and the readings next to a
\* multiple of 1000
Kilometrajes ==
    {k \in 0..MaxKilometraje : k % 500 = 0 \/ k % 1000 = 999 \/ k % 1000 = 1}

\* the column values: NULL and the readings
CeldasKilometraje == {<<>>} \cup {<<k>> : k \in Kilometrajes}

\* intervals: 0 and some from 1000 up
Intervalos == {0, 1000, 1500, 5000, 10000}

\* a method that reports the last 1000 units of the interval: what C28
\* rules out
necesita_mantenimiento_ultimos(km, kilometraje_limite) ==
    IF km # <<>> /\ km # <<0>> /\ kilometraje_limite # 0
    THEN km[1] % kilometraje_limite >= kilometraje_limite - MargenMantenimiento
    ELSE FALSE

\* Bus.necesita_mantenimiento(kilometraje_limite) of a row whose
\* kilometraje_actual is km, <<>> when it is None; None and 0 are false in
\* "if self.kilometraje_actual and kilometraje_limite"
necesita_mantenimiento(km, kilometraje_limite) ==
    IF km # <<>> /\ km # <<0>> /\ kilometraje_limite # 0
    THEN km[1] % kilometraje_limite < MargenMantenimiento
    ELSE FALSE

EntradaMantenimiento(km, limite) ==
    [f |-> "entrada", km |-> km, limite |-> limite, ret |-> FALSE]

InitMantenimiento ==
    /\ buses = <<>>
    /\ now = 0
    /\ req = [c \in Clients |-> Idle]
    /\ llamada \in {EntradaMantenimiento(km, limite) :
                        km \in CeldasKilometraje, limite \in Intervalos}

\* the method is called on an active row
Bus_necesita_mantenimiento ==
    /\ llamada.f = "entrada"
    /\ llamada' = [llamada EXCEPT
                      !.f = "necesita_mantenimiento",
                      !.ret = necesita_mantenimiento(llamada.km, llamada.limite)]
    /\ UNCHANGED <<buses, now, req>>

NextMantenimiento == Bus_necesita_mantenimiento

SpecMantenimiento == InitMantenimiento /\ [][NextMantenimiento]_vars

\* C19: an active record with odometer m is reported as due for an interval
\* I >= 1000 exactly when m modulo I lies in the last 1000 units of the
\* interval: with I = 10000 a bus at 9500 is due and a bus at 5000 is not.
\* necesita_mantenimiento does not: it reports the first 1000 units.
C19_MaintenanceDueLastThousand ==
    (llamada.f = "necesita_mantenimiento" /\ llamada.km # <<>>
        /\ llamada.limite >= 1000) =>
        (llamada.ret <=> llamada.km[1] % llamada.limite >= llamada.limite - 1000)

---------------------------------------------------------------------------
(* Statistics: obtener_estadisticas of the router and                      *)
(* BusRepository.get_statistics.  Both only read.                          *)

\* the active rows
Activos(t) == {i \in DOMAIN t : t[i].esta_activo}

\* SUM(capacidad_sentados) over the rows ids, 0 over no row (COALESCE in the
\* router, "or 0" in the repository)
RECURSIVE SumaCapacidad(_, _)
SumaCapacidad(t, ids) ==
    IF ids = {} THEN 0
    ELSE LET i == CHOOSE x \in ids : TRUE
         IN  t[i].capacidad_sentados + SumaCapacidad(t, ids \ {i})

\* the active rows in state e
ActivosEnEstado(t, e) == {i \in Activos(t) : t[i].estado_id = e}

NombresEstados == {EstadosBuses[e].nombre : e \in DOMAIN EstadosBuses}

\* the id of the state called n
EstadoDeNombre(n) == CHOOSE e \in DOMAIN EstadosBuses : EstadosBuses[e].nombre = n

\* obtener_estadisticas: estados_buses LEFT JOIN buses ON the state and
\* esta_activo = true, grouped by state; COUNT(b.id) counts the joined rows
obtener_estadisticas(t) ==
    [total_buses |-> Cardinality(Activos(t)),
     total_eliminados |-> Cardinality(Inactivos(t)),
     por_estado |-> [n \in NombresEstados |->
                        Cardinality(ActivosEnEstado(t, EstadoDeNombre(n)))],
     capacidad_total_flota |-> SumaCapacidad(t, Activos(t))]

\* BusRepository.get_statistics: estados_buses JOIN buses filtered by
\* esta_activo, grouped by nombre, so a group exists only for a state with
\* an active row (kilometraje_promedio, a rounded mean, is left out)
get_statistics(t) ==
    [total_buses |-> Cardinality(Activos(t)),
     estados |-> [n \in {m \in NombresEstados :
                            ActivosEnEstado(t, EstadoDeNombre(m)) # {}} |->
                     Cardinality(ActivosEnEstado(t, EstadoDeNombre(n)))],
     capacidad_total_flota |-> SumaCapacidad(t, Activos(t))]

\* a map of the statistics has one entry per state, the number of active
\* rows in it
PorEstadoCompleto(t, mapa) ==
    /\ DOMAIN mapa = NombresEstados
    /\ \A e \in DOMAIN EstadosBuses :
          mapa[EstadosBuses[e].nombre] = Cardinality(ActivosEnEstado(t, e))

\* C20: in every reachable table the statistics' map by state has one entry
\* for every state of estados_buses, the number of active rows in that
\* state, 0 for a state with none; with no active row every state appears
\* with 0 and the total and the total capacity are 0.
\* BusRepository.get_statistics does not: its map leaves out the states
\* with no active row.
C20_StatisticsEveryState ==
    /\ PorEstadoCompleto(buses, obtener_estadisticas(buses).por_estado)
    /\ PorEstadoCompleto(buses, get_statistics(buses).estados)
    /\ Activos(buses) = {} =>
          /\ obtener_estadisticas(buses).total_buses = 0
          /\ obtener_estadisticas(buses).capacidad_total_flota = 0
          /\ get_statistics(buses).total_buses = 0
          /\ get_statistics(buses).capacidad_total_flota = 0

---------------------------------------------------------------------------
(* C21 *)

\* the ids of p go up
Ascendente(p) == \A i, j \in DOMAIN p : i < j => p[i] < p[j]

\* the router's listar_buses, its rows in the order answered: ORDER BY b.id
listar_buses_filas(t) ==
    CHOOSE p \in Ordenes(listar_buses(t)) : Ascendente(p)

\* main.py listar_buses: the same SELECT with no ORDER BY: the answers it
\* may give
main_listar_buses(t) == Ordenes({i \in Joined(t) : t[i].esta_activo})

\* C21: the list of buses holds active rows only, in ascending order of id,
\* for every table, every offset >= 0 and every limit in 1..100.
\* find_all_with_details and main.py's listar_buses do not order their
\* query: the rows come in whatever order the database reads them.
C21_ListActiveAscending ==
    /\ Rango(listar_buses_filas(buses)) \cap Inactivos(buses) = {}
    /\ Ascendente(listar_buses_filas(buses))
    /\ \A pg \in Paginas : \A p \in find_all_with_details(buses, pg[1], pg[2]) :
          Rango(p) \cap Inactivos(buses) = {} /\ Ascendente(p)
    /\ \A p \in main_listar_buses(buses) :
          Rango(p) \cap Inactivos(buses) = {} /\ Ascendente(p)

---------------------------------------------------------------------------
(* C22 *)

\* ORDER BY b.fecha_actualizacion ASC: what C22 rules out
listar_buses_eliminados_asc(t) ==
    {p \in Ordenes(listar_buses_eliminados(t)) :
        \A i, j \in DOMAIN p :
            i < j => t[p[i]].fecha_actualizacion <= t[p[j]].fecha_actualizacion}

\* listar_buses_eliminados, its rows in the orders it may answer them:
\* ORDER BY b.fecha_actualizacion DESC, rows of one instant in any order
listar_buses_eliminados_filas(t) ==
    {p \in Ordenes(listar_buses_eliminados(t)) :
        \A i, j \in DOMAIN p :
            i < j => t[p[i]].fecha_actualizacion >= t[p[j]].fecha_actualizacion}

\* the row id has just been soft-deleted
RecienEliminado(id) ==
    /\ id \in DOMAIN buses /\ id \notin Inactivos(buses)
    /\ id \in DOMAIN buses' /\ id \in Inactivos(buses')

\* C22: the list of deleted buses holds exactly the rows with esta_activo
\* false, and a row that has just been soft-deleted (by eliminar_bus or by
\* BusRepository.soft_delete) comes before every row soft-deleted at an
\* earlier instant.
C22_DeletedListLatestFirst ==
    [][ /\ listar_buses_eliminados_filas(buses') # {}
        /\ \A p \in listar_buses_eliminados_filas(buses') :
              /\ Rango(p) = Inactivos(buses')
              /\ \A id \in Rango(p) : RecienEliminado(id) =>
                    \A k, l \in DOMAIN p :
                        (p[l] = id /\ k < l) =>
                            buses[p[k]].fecha_actualizacion >= now
      ]_vars

\* two deleted rows, the second deleted an instant after the first and
\* listed first
C22_Witness ==
    /\ now = 1
    /\ \E i, j \in Inactivos(buses) :
          /\ buses[i].fecha_actualizacion = 0 /\ buses[j].fecha_actualizacion = 1
          /\ \A p \in listar_buses_eliminados_filas(buses) : p = <<j, i>>

---------------------------------------------------------------------------
(* The connection of a request.  One request at a time runs crear_bus or   *)
(* actualizar_bus of the router, or an endpoint that takes its session     *)
(* from obtener_bd, statement by statement; a statement that talks to the  *)
(* database may raise (falla), whatever the table holds.  llamada follows  *)
(* the request: its handler f, its position pc, its connection conn        *)
(* ("none", "open" or "closed") and, at pc "fin", its response.            *)

CrearInputsConexion ==
    CrearInputsReloj
    \cup {Solicitud(AB__12, Volvo, 45, 2019, 1, 1),
          Solicitud(BCDF21, Volvo, 45, 2019, 99, 1)}

ActualizarInputsConexion ==
    ActualizarInputsReloj \cup {[patente |-> AB__12], <<>>}

\* the request of handler f at pc
EnHandler(f, pc, conn, id, d, resp) ==
    [f |-> f, pc |-> pc, conn |-> conn, id |-> id, d |-> d, resp |-> resp]

SinRespuesta == [status |-> 0, error |-> "none"]

InitConexion ==
    /\ buses = <<>>
    /\ now = 0
    /\ req = [c \in Clients |-> Idle]
    /\ llamada = EnHandler("none", "fin", "none", 0, <<>>, SinRespuesta)

\* the request moves to pc
Sigue(pc, conn) ==
    llamada' = [llamada EXCEPT !.pc = pc, !.conn = conn]

\* the request ends with resp
Sale(resp, conn) ==
    llamada' = [llamada EXCEPT !.pc = "fin", !.conn = conn, !.resp = resp]

\* a request arrives once the one before it has ended
Llega_crear_bus(raw) ==
    /\ llamada.pc = "fin"
    /\ llamada' = EnHandler("crear_bus", "validar", "none", 0, raw, SinRespuesta)
    /\ UNCHANGED <<buses, now, req>>

Llega_actualizar_bus(id, d) ==
    /\ llamada.pc = "fin"
    /\ llamada' = EnHandler("actualizar_bus", "conectar", "none", id, d, SinRespuesta)
    /\ UNCHANGED <<buses, now, req>>

Llega_obtener_bd ==
    /\ llamada.pc = "fin"
    /\ llamada' = EnHandler("obtener_bd", "sesion", "none", 0, <<>>, SinRespuesta)
    /\ UNCHANGED <<buses, now, req>>

\* crear_bus, "Validaciones de entrada": no connection yet
crear_bus_validaciones ==
    /\ llamada.f = "crear_bus" /\ llamada.pc = "validar"
    /\ LET v == crear_bus_validar(BusCrear(llamada.d))
       IN  IF Ok(v) THEN Sigue("conectar", "none") ELSE Sale(v, "none")
    /\ UNCHANGED <<buses, now, req>>

\* conn = get_db_connection(); cursor = conn.cursor()
conectar(falla) ==
    /\ llamada.f \in {"crear_bus", "actualizar_bus"} /\ llamada.pc = "conectar"
    /\ IF falla THEN Sale(Resp(500, "InternalError"), "none")
       ELSE Sigue(IF llamada.f = "crear_bus" THEN "consultar" ELSE "existe", "open")
    /\ UNCHANGED <<buses, now, req>>

\* crear_bus, the three SELECTs: each closes the connection before it
\* raises its 400; an error of execute goes to "except Exception"
crear_bus_consultas(falla) ==
    /\ llamada.f = "crear_bus" /\ llamada.pc = "consultar"
    /\ LET c == crear_bus_consultar(buses, BusCrear(llamada.d))
       IN  IF falla THEN Sale(Resp(500, "InternalError"), llamada.conn)
           ELSE IF ~Ok(c) THEN Sale(c, "closed")
           ELSE Sigue("insertar", llamada.conn)
    /\ UNCHANGED <<buses, now, req>>

\* crear_bus, the INSERT and the commit
crear_bus_insert_commit(falla) ==
    /\ llamada.f = "crear_bus" /\ llamada.pc = "insertar"
    /\ LET r == crear_bus_insertar(buses, now, BusCrear(llamada.d))
       IN  IF falla \/ ~Ok(r.resp)
           THEN /\ Sale(Resp(500, "InternalError"), llamada.conn)
                /\ UNCHANGED buses
           ELSE /\ Cardinality(DOMAIN r.tabla) <= MaxBuses
                /\ buses' = r.tabla
                /\ Sigue("leer", llamada.conn)
    /\ UNCHANGED <<now, req>>

\* actualizar_bus, "Verificar que el bus existe"
actualizar_bus_existe(falla) ==
    /\ llamada.f = "actualizar_bus" /\ llamada.pc = "existe"
    /\ IF falla THEN Sale(Resp(500, "InternalError"), llamada.conn)
       ELSE IF ~ExisteActivo(buses, llamada.id)
            THEN Sale(Resp(404, "NotFound"), "closed")
       ELSE Sigue("patente", llamada.conn)
    /\ UNCHANGED <<buses, now, req>>

\* actualizar_bus, the checks of the plate: the SELECT runs when a plate of
\* valid length is supplied
actualizar_bus_verificar_patente(falla) ==
    /\ llamada.f = "actualizar_bus" /\ llamada.pc = "patente"
    /\ LET p == actualizar_bus_patente(buses, llamada.id, llamada.d)
       IN  IF falla /\ "patente" \in DOMAIN llamada.d
                    /\ ~PatenteLargoInvalido(LimpiarPatente(llamada.d.patente))
               THEN Sale(Resp(500, "InternalError"), llamada.conn)
           ELSE IF ~Ok(p) THEN Sale(p, "closed")
           ELSE Sigue("ejecutar", llamada.conn)
    /\ UNCHANGED <<buses, now, req>>

\* actualizar_bus, the UPDATE and the commit, or 400 with no field
actualizar_bus_update_commit(falla) ==
    /\ llamada.f = "actualizar_bus" /\ llamada.pc = "ejecutar"
    /\ LET r == actualizar_bus_ejecutar(buses, now, llamada.id, llamada.d)
       IN  IF r.resp.error = "NoFields"
           THEN Sale(r.resp, "closed") /\ UNCHANGED buses
           ELSE IF falla \/ ~Ok(r.resp)
           THEN Sale(Resp(500, "InternalError"), llamada.conn) /\ UNCHANGED buses
           ELSE buses' = r.tabla /\ Sigue("leer", llamada.conn)
    /\ UNCHANGED <<now, req>>

\* the SELECT of the row written, cursor.close(), conn.close(), return
leer_y_cerrar(falla) ==
    /\ llamada.f \in {"crear_bus", "actualizar_bus"} /\ llamada.pc = "leer"
    /\ IF falla THEN Sale(Resp(500, "InternalError"), llamada.conn)
       ELSE Sale(Resp(IF llamada.f = "crear_bus" THEN 201 ELSE 200, "none"), "closed")
    /\ UNCHANGED <<buses, now, req>>

\* obtener_bd: bd = SesionLocal()
obtener_bd_sesion ==
    /\ llamada.f = "obtener_bd" /\ llamada.pc = "sesion"
    /\ Sigue("yield", "open")
    /\ UNCHANGED <<buses, now, req>>

\* obtener_bd: the endpoint runs with the session it was yielded, raising or
\* not, and "finally: bd.close()" runs
obtener_bd_finally(falla) ==
    /\ llamada.f = "obtener_bd" /\ llamada.pc = "yield"
    /\ Sale(IF falla THEN Resp(500, "InternalError") ELSE Resp(200, "none"), "closed")
    /\ UNCHANGED <<buses, now, req>>

NextConexion ==
    \/ \E raw \in CrearInputsConexion : Llega_crear_bus(raw)
    \/ \E id \in BusIds, d \in ActualizarInputsConexion : Llega_actualizar_bus(id, d)
    \/ Llega_obtener_bd
    \/ crear_bus_validaciones
    \/ \E falla \in BOOLEAN : conectar(falla)
    \/ \E falla \in BOOLEAN : crear_bus_consultas(falla)
    \/ \E falla \in BOOLEAN : crear_bus_insert_commit(falla)
    \/ \E falla \in BOOLEAN : actualizar_bus_existe(falla)
    \/ \E falla \in BOOLEAN : actualizar_bus_verificar_patente(falla)
    \/ \E falla \in BOOLEAN : actualizar_bus_update_commit(falla)
    \/ \E falla \in BOOLEAN : leer_y_cerrar(falla)
    \/ obtener_bd_sesion
    \/ \E falla \in BOOLEAN : obtener_bd_finally(falla)

SpecConexion == InitConexion /\ [][NextConexion]_vars

\* C23: no request ends with its connection or session still open, on any
\* exit path, an unexpected error of a query or of the commit included.
\* crear_bus and actualizar_bus do not close the connection on the path
\* through "except Exception".
C23_ConnectionReleased ==
    llamada.pc = "fin" => llamada.conn # "open"

---------------------------------------------------------------------------
(* The odometer: requests that name kilometraje_actual, name it null or    *)
(* leave it out                                                            *)

\* a POST body with kilometraje_actual: km is <<>> for null, <<v>> for v
ConKilometraje(raw, km) ==
    [f \in DOMAIN raw \cup {"kilometraje_actual"} |->
        IF f = "kilometraje_actual" THEN km ELSE raw[f]]

CrearInputsKm ==
    {Solicitud(p, Volvo, 45, 2019, 1, 1) : p \in {ABCD_12, BCDF21}}
    \cup {ConKilometraje(Solicitud(p, Volvo, 45, 2019, 1, 1), km) :
            p \in {ABCD_12, BCDF21}, km \in {<<>>, <<-5>>, <<120>>}}

ActualizarInputsKm ==
    {[kilometraje_actual |-> 7], [kilometraje_actual |-> -5], [marca |-> Scania]}

NextKm ==
    \/ \E raw \in CrearInputsKm : crear_bus(raw)
    \/ \E raw \in CrearInputsKm : Repo_create(raw)
    \/ \E id \in BusIds, d \in ActualizarInputsKm : actualizar_bus(id, d)
    \/ \E id \in BusIds, d \in ActualizarInputsKm : Repo_update(id, d)
    \/ \E id \in BusIds : eliminar_bus(id)

SpecKm == Init /\ [][NextKm]_vars

\* C24: in every state the creates and updates reach, every stored
\* kilometraje_actual is a number >= 0, never negative and never NULL, and a
\* row created with no odometer value is stored active with odometer 0.
\* The router's crear_bus and actualizar_bus store the value as sent.
C24_OdometerNonNegative ==
    /\ \A i \in DOMAIN buses :
          /\ buses[i].kilometraje_actual # <<>>
          /\ buses[i].kilometraje_actual[1] >= 0
    /\ \A raw \in CrearInputsKm : "kilometraje_actual" \notin DOMAIN raw =>
          /\ LET r == crear_bus_run(buses, now, raw)
             IN  Ok(r.resp) => /\ r.tabla[r.id].kilometraje_actual = <<0>>
                               /\ r.tabla[r.id].esta_activo
          /\ LET r == create(buses, now, raw)
             IN  Ok(r.resp) => /\ r.tabla[r.id].kilometraje_actual = <<0>>
                               /\ r.tabla[r.id].esta_activo

---------------------------------------------------------------------------
(* C25 *)

\* two runs of an operation from one table agree: both refuse, or both
\* accept and leave the same table
Equivalentes(a, b) ==
    /\ Ok(a.resp) <=> Ok(b.resp)
    /\ Ok(a.resp) => a.tabla = b.tabla

\* C25: the handlers over raw SQL (crear_bus and actualizar_bus of the
\* router, actualizar_bus of main.py) and BusRepository.create / update are
\* equivalent: from the same table and the same input both accept or both
\* reject, and on acceptance both leave the same stored record.
\* They are not: the repository accepts what the schemas accept.
C25_RawSqlRepositoryEquivalent ==
    /\ \A raw \in CrearInputs :
          Equivalentes(crear_bus_run(buses, now, raw), create(buses, now, raw))
    /\ \A i \in BusIds : \A d \in ActualizarInputs :
          /\ Equivalentes(actualizar_bus_run(buses, now, i, d), update(buses, now, i, d))
          /\ Equivalentes(main_actualizar_bus_run(buses, now, i, d),
                          update(buses, now, i, d))

---------------------------------------------------------------------------
(* C26 *)

\* POST bodies that break any number of the rules at once
CrearInputsVarios ==
    {Solicitud(p, Volvo, c, a, e, k) :
        p \in {AB__12, ABCD_12}, c \in {46, 45}, a \in {1979, 2019},
        e \in {99, 1}, k \in {99, 1}}

\* the first rule a create breaks in the order plate length, year, seats,
\* duplicate plate, state, fuel type; "none" when it breaks none
PrimerFallo(t, raw) ==
    IF Len(LimpiarPatente(raw.patente)) < 6 \/ Len(LimpiarPatente(raw.patente)) > 8
        THEN "InvalidPlateFormat"
    ELSE IF raw.anio < 1980 \/ raw.anio > AnioActual + 1 THEN "InvalidYear"
    ELSE IF raw.capacidad_sentados < 1 \/ raw.capacidad_sentados > 45
        THEN "InvalidCapacity"
    ELSE IF \E i \in DOMAIN t : t[i].patente = LimpiarPatente(raw.patente)
        THEN "DuplicatePlate"
    ELSE IF raw.estado_id \notin 1..4 THEN "UnknownState"
    ELSE IF raw.tipo_combustible_id \notin 1..5 THEN "UnknownFuelType"
    ELSE "none"

\* C26: crear_bus (router and main.py) checks plate length, year range,
\* seat capacity, duplicate plate, state reference and fuel-type reference
\* in this order: a create that breaks several rules is answered with the
\* failure of the first one it breaks.
C26_CreateCheckOrder ==
    \A raw \in CrearInputsVarios :
        PrimerFallo(buses, raw) # "none" =>
            /\ crear_bus_run(buses, now, raw).resp.error = PrimerFallo(buses, raw)
            /\ main_crear_bus_run(buses, now, raw).resp.error = PrimerFallo(buses, raw)

\* a table holding plate ABCD12, where a create that breaks every rule is
\* answered InvalidPlateFormat and one that repeats the plate and names no
\* state and no fuel type is answered DuplicatePlate
C26_Witness ==
    /\ \E i \in DOMAIN buses : buses[i].patente = <<"A","B","C","D","1","2">>
    /\ crear_bus_run(buses, now, Solicitud(AB__12, Volvo, 46, 1979, 99, 99)).resp.error
          = "InvalidPlateFormat"
    /\ crear_bus_run(buses, now, Solicitud(ABCD_12, Volvo, 45, 2019, 99, 99)).resp.error
          = "DuplicatePlate"
    /\ main_crear_bus_run(buses, now, Solicitud(ABCD_12, Volvo, 46, 1979, 1, 99)).resp.error
          = "InvalidYear"

---------------------------------------------------------------------------
(* C27 *)

\* the soft-deleted rows whose plate is p once cleaned
InactivosConPatente(t, p) ==
    {i \in Inactivos(t) : t[i].patente = LimpiarPatente(p)}

\* C27: the plate check of crear_bus looks at every row, active or not: a
\* create whose cleaned plate is that of a soft-deleted row, and that breaks
\* no rule of the fields, is answered DuplicatePlate and writes nothing; so
\* is an update of another bus to that plate; and no two rows of the table,
\* active or not, share a plate.
C27_PlateCheckIgnoresActiveFlag ==
    /\ \A i, j \in DOMAIN buses : i # j => buses[i].patente # buses[j].patente
    /\ \A raw \in CrearInputs :
          (InactivosConPatente(buses, raw.patente) # {}
             /\ raw.anio >= 1980 /\ raw.anio <= AnioActual + 1
             /\ raw.capacidad_sentados >= 1 /\ raw.capacidad_sentados <= 45)
          => /\ crear_bus_run(buses, now, raw).resp.error = "DuplicatePlate"
             /\ crear_bus_run(buses, now, raw).tabla = buses
    /\ \A id \in DOMAIN buses \ Inactivos(buses) : \A d \in ActualizarInputs :
          ("patente" \in DOMAIN d /\ InactivosConPatente(buses, d.patente) # {})
          => /\ actualizar_bus_run(buses, now, id, d).resp.error = "DuplicatePlate"
             /\ actualizar_bus_run(buses, now, id, d).tabla = buses

\* a soft-deleted row with plate ABCD12 and an active row with another
\* plate: the create of "abcd 12" and the update of the active row to it
\* are both refused
C27_Witness ==
    \E i \in Inactivos(buses) : \E j \in DOMAIN buses \ Inactivos(buses) :
        /\ buses[i].patente = <<"A","B","C","D","1","2">>
        /\ crear_bus_run(buses, now, Solicitud(abcd_12, Volvo, 45, 2019, 1, 1)).resp.error
              = "DuplicatePlate"
        /\ actualizar_bus_run(buses, now, j, [patente |-> abcd_12]).resp.error
              = "DuplicatePlate"

---------------------------------------------------------------------------
(* C28 *)

\* C28: necesita_mantenimiento returns false whenever the odometer is 0 or
\* unset or the interval is 0, and otherwise returns true exactly when the
\* odometer modulo the interval is less than 1000.
C28_MaintenanceFirstThousand ==
    llamada.f = "necesita_mantenimiento" =>
        IF llamada.km = <<>> \/ llamada.km = <<0>> \/ llamada.limite = 0
        THEN llamada.ret = FALSE
        ELSE llamada.ret <=> (llamada.km[1] % llamada.limite < 1000)

\* the method has answered true for 10500 with interval 10000
C28_Witness ==
    /\ llamada.f = "necesita_mantenimiento"
    /\ llamada.km = <<10500>> /\ llamada.limite = 10000
    /\ llamada.ret = TRUE

---------------------------------------------------------------------------
(* C29 *)

\* t and t2 hold the same rows with the same values, fecha_actualizacion of
\* row id aside
IgualSalvoFecha(t, t2, id) ==
    /\ DOMAIN t2 = DOMAIN t
    /\ \A j \in DOMAIN t : \A f \in Columnas :
          (j # id \/ f # "fecha_actualizacion") => t2[j][f] = t[j][f]

\* C29: a successful soft delete (eliminar_bus, BusRepository.soft_delete)
\* or restore (restaurar_bus) of row id changes esta_activo and
\* fecha_actualizacion of that row and nothing else, in that row or in any
\* other; a soft delete followed by a restore gives the row its values back.
C29_DeleteRestoreFrame ==
    \A id \in BusIds :
        LET del  == eliminar_bus_run(buses, now, id)
            sd   == soft_delete(buses, now, id)
            res  == restaurar_bus_run(buses, now, id)
            back == restaurar_bus_run(del.tabla, now, id)
        IN  /\ del.resp.error = "none" =>
                  /\ SoloActivo(buses, del.tabla, id)
                  /\ back.resp.error = "none"
                  /\ IgualSalvoFecha(buses, back.tabla, id)
            /\ sd.ret = TRUE =>
                  /\ SoloActivo(buses, sd.tabla, id)
                  /\ IgualSalvoFecha(buses, restaurar_bus_run(sd.tabla, now, id).tabla, id)
            /\ res.resp.error = "none" => SoloActivo(buses, res.tabla, id)

\* the clock has advanced since the rows were written; one row is active,
\* in state 2, and is soft-deleted from here, another is soft-deleted and
\* is restored from here
C29_Witness ==
    /\ now = 1
    /\ \E i, j \in DOMAIN buses :
          /\ i # j
          /\ buses[i].estado_id = 2 /\ buses[i].fecha_actualizacion = 0
          /\ eliminar_bus_run(buses, now, i).tabla[i].esta_activo = FALSE
          /\ buses[j].esta_activo = FALSE
          /\ restaurar_bus_run(buses, now, j).tabla[j].esta_activo = TRUE

---------------------------------------------------------------------------
(* C30 *)

\* client c's update writes and answers success in this step
UpdateEscribe(c) ==
    /\ req[c].pc \in {"ejecutar", "commit"}
    /\ req[c].op \in {"actualizar_bus", "update"}
    /\ req'[c].pc = "done"
    /\ req'[c].resp.error = "none"

\* C30: under every interleaving of an update and a soft delete of the same
\* row, an update that succeeds wrote to a row that was active when it
\* wrote: no update changes the fields of a row that has become inactive.
\* The UPDATE of actualizar_bus and of BusRepository.update names the row by
\* id alone: a soft delete committed after the update's SELECT does not
\* stop it.
C30_UpdateWritesActiveRow ==
    [][\A c \in Clients :
          UpdateEscribe(c) => buses[req[c].id].esta_activo]_vars

=============================================================================
